---- MODULE Spec2Model ----
(***************************************************************************)
(* Batched bitfield load/store of bitvec's field.rs: BitField for          *)
(* BitSlice<Lsb0, T> and BitSlice<Msb0, T>, with get / set / resize /      *)
(* check.  A bit range [start, start+len) of a region of storage elements  *)
(* is loaded into, or stored from, a register M.                           *)
(***************************************************************************)
EXTENDS Integers, Sequences, FiniteSets, TLC

\* Number of storage elements of the memory region under the slice.
NumElems == 3

\* Widths (in bits) of the storage element types T::Mem and of the
\* register types M that the model instantiates the generics with.
ElemWidths == {8, 16}
RegWidths == {8, 16}

\* Bit patterns from which the values handed to the stores are cut (0xAB and
\* 0xA6CD, reduced to the register width or to the slice length).
ValueSeeds == {171, 42701}
Fills == {"zero", "mixed", "inverse"}

VARIABLES
    order,            \* "Lsb0" or "Msb0": the O of BitSlice<O, T>
    tbits,            \* T::Mem::BITS
    mbits,            \* M::BITS
    target_endian,    \* cfg(target_endian): "little" or "big"
    overflow_checks,  \* whether shifts by >= the type width panic (debug) or wrap
    fill,             \* which initial memory content the region started with
    mem,              \* the storage elements, in address order
    start,            \* first bit of the slice, counted from the region's base
    len,              \* self.len()
    value,            \* the M handed to the stores
    pc,               \* "ready", "stored", "loaded" or "panicked"
    op,               \* the last BitField method called
    stored,           \* the store that completed on this slice: "none", "le", "be"
    out,              \* the M the last load returned
    panicked,         \* "none", "check" (check::<M> failed) or "shift"
    overflowed,       \* the last method shifted a register by >= its width
    aliased,          \* an element written through the aliased access by two threads
    aliased0,         \* that element before either thread wrote
    writer,           \* per thread: its set call (mask, shamt, value) and position
    resize_value,     \* the value: T handed to resize, as its bytes, least significant first
    resize_size_u,    \* size_of::<U>() of that call
    resize_out        \* the out: U that resize returned, as its bytes, least significant first

vars == <<order, tbits, mbits, target_endian, overflow_checks, fill, mem,
          start, len, value, pc, op, stored, out, panicked, overflowed,
          aliased, aliased0, writer, resize_value, resize_size_u, resize_out>>

config == <<order, tbits, mbits, target_endian, overflow_checks, fill,
            start, len, value>>

alias_vars == <<aliased, aliased0, writer>>

resize_vars == <<resize_value, resize_size_u, resize_out>>

slice_vars == <<fill, mem, start, len, value, pc, op, stored, out, panicked,
                overflowed>>

----------------------------------------------------------------------------
(* Integer bit operations on unsigned registers *)

Pow2(n) == 2 ^ n

Bit(x, k) == (x \div Pow2(k)) % 2

RECURSIVE BitAnd(_, _)
BitAnd(a, b) ==
    IF a = 0 \/ b = 0 THEN 0
    ELSE (a % 2) * (b % 2) + 2 * BitAnd(a \div 2, b \div 2)

RECURSIVE BitOr(_, _)
BitOr(a, b) ==
    IF a = 0 THEN b
    ELSE IF b = 0 THEN a
    ELSE (IF a % 2 = 1 \/ b % 2 = 1 THEN 1 ELSE 0) + 2 * BitOr(a \div 2, b \div 2)

\* !x on a w-bit register
BitNot(x, w) == Pow2(w) - 1 - x

RECURSIVE Reverse(_)
Reverse(s) == IF s = <<>> THEN <<>> ELSE Append(Reverse(Tail(s)), Head(s))

----------------------------------------------------------------------------
(* resize: a byte copy between two registers, by host byte order *)

\* The bytes of a size-byte register holding x, in address order.
ToBytes(x, size, endian) ==
    [i \in 1 .. size |->
        IF endian = "little" THEN (x \div Pow2(8 * (i - 1))) % 256
        ELSE (x \div Pow2(8 * (size - i))) % 256]

RECURSIVE FromBytesLe(_)
FromBytesLe(bs) ==
    IF bs = <<>> THEN 0 ELSE Head(bs) + 256 * FromBytesLe(Tail(bs))

\* The register value a sequence of bytes in address order denotes.
FromBytes(bs, endian) ==
    IF endian = "little" THEN FromBytesLe(bs) ELSE FromBytesLe(Reverse(bs))

\* ptr::copy_nonoverlapping(src + soff, dst + doff, count)
copy_nonoverlapping(src, soff, dst, doff, count) ==
    [i \in 1 .. Len(dst) |->
        IF i > doff /\ i <= doff + count THEN src[i - doff + soff] ELSE dst[i]]

resize_inner_little_high_bytes(src, dst, size_t, size_u) ==
    LET count == IF size_t < size_u THEN size_t ELSE size_u
    IN copy_nonoverlapping(src, size_t - count, dst, 0, count)

resize_inner_little(src, dst, size_t, size_u) ==
    copy_nonoverlapping(src, 0, dst, 0, IF size_t < size_u THEN size_t ELSE size_u)

resize_inner_big_no_advance(src, dst, size_t, size_u) ==
    IF size_t > size_u
    THEN copy_nonoverlapping(src, size_t - size_u, dst, 0, size_u)
    ELSE copy_nonoverlapping(src, 0, dst, 0, size_t)

resize_inner_big(src, dst, size_t, size_u) ==
    IF size_t > size_u
    THEN copy_nonoverlapping(src, size_t - size_u, dst, 0, size_u)
    ELSE copy_nonoverlapping(src, 0, dst, size_u - size_t, size_t)

resize_inner(src, dst, size_t, size_u, endian) ==
    IF endian = "little"
    THEN resize_inner_little(src, dst, size_t, size_u)
    ELSE resize_inner_big(src, dst, size_t, size_u)

\* resize::<T, U>(x) for registers of tb and ub bits on a host of the given
\* byte order.
resize_on(x, tb, ub, endian) ==
    LET size_t == tb \div 8
        size_u == ub \div 8
        zero == [i \in 1 .. size_u |-> 0]
    IN FromBytes(resize_inner(ToBytes(x, size_t, endian), zero, size_t, size_u,
                              endian), endian)

resize(x, tb, ub) == resize_on(x, tb, ub, target_endian)

\* The memory image, in address order, of a register given by its bytes in
\* order of significance (and back: the mapping is its own inverse).
RegisterBytes(digits, endian) ==
    IF endian = "little" THEN digits ELSE Reverse(digits)

\* resize::<T, U>(value) on registers of any size, the value and the result
\* given by their bytes in order of significance, least significant first.
resize_bytes(digits, size_u, endian) ==
    LET size_t == Len(digits)
        zero == [i \in 1 .. size_u |-> 0]
    IN RegisterBytes(resize_inner(RegisterBytes(digits, endian), zero, size_t,
                                  size_u, endian), endian)

----------------------------------------------------------------------------
(* Collaborators of field.rs: the register constants, the ordering masks,   *)
(* the domain decomposition and the element access                          *)

\* M::MASK: the mask that reduces a shift amount into 0 .. M::BITS - 1
M_MASK == mbits - 1

\* Lsb0::mask(head, tail): positions head .. tail-1 counted from the LSedge.
\* A head of None is 0 and a tail of None is T::Mem::BITS.
Lsb0_mask(head, tail) == Pow2(tail) - Pow2(head)

\* Msb0::mask(head, tail): positions head .. tail-1 counted from the MSedge.
Msb0_mask(head, tail) == Pow2(tbits - head) - Pow2(tbits - tail)

\* BitSlice::domain(): the element indices (from 1, in address order) and
\* the partial-element markers of the slice [s, s + n).
Domain(s, n) ==
    LET w == tbits
        h == s % w
        base == (s \div w) + 1
        e == (h + n + w - 1) \div w
        t == IF n = 0 THEN h ELSE ((h + n - 1) % w) + 1
        Region(hh, b, tt) ==
            [kind |-> "Region", has_head |-> hh, head |-> h, helem |-> base,
             body |-> b, has_tail |-> tt, tail |-> t, telem |-> base + e - 1,
             elem |-> base]
        Elems(a, b) == [i \in 1 .. (b - a + 1) |-> a + i - 1]
    IN  IF n = 0 THEN Region(FALSE, <<>>, FALSE)
        ELSE IF h = 0 /\ t = w THEN Region(FALSE, Elems(base, base + e - 1), FALSE)
        ELSE IF t = w THEN Region(TRUE, Elems(base + 1, base + e - 1), FALSE)
        ELSE IF h = 0 THEN Region(FALSE, Elems(base, base + e - 2), TRUE)
        ELSE IF e = 1 THEN
            [kind |-> "Enclave", has_head |-> TRUE, head |-> h, helem |-> base,
             body |-> <<>>, has_tail |-> TRUE, tail |-> t, telem |-> base,
             elem |-> base]
        ELSE Region(TRUE, Elems(base + 1, base + e - 2), TRUE)

\* BitAccess::clear_bits(mask): *elem &= !mask
clear_bits(elem, mask) == BitAnd(elem, BitNot(mask, tbits))

\* BitAccess::set_bits(mask): *elem |= mask
set_bits(elem, bits) == BitOr(elem, bits)

----------------------------------------------------------------------------
(* Register arithmetic.  A shift by at least the type's width panics when  *)
(* overflow checks are compiled in, and otherwise shifts by the amount     *)
(* reduced modulo the width.                                               *)

Halted(r) == r.panic # "none"

M_ZERO == [val |-> 0, ovf |-> FALSE, panic |-> "none"]

\* accum <<= n, on an M
M_shl(acc, n) ==
    IF Halted(acc) THEN acc
    ELSE IF n >= mbits THEN
        IF overflow_checks
        THEN [acc EXCEPT !.ovf = TRUE, !.panic = "shift"]
        ELSE [acc EXCEPT !.ovf = TRUE,
                         !.val = (acc.val * Pow2(n % mbits)) % Pow2(mbits)]
    ELSE [acc EXCEPT !.val = (acc.val * Pow2(n)) % Pow2(mbits)]

\* accum |= g, where g is the result of a get or of a resize
M_or(acc, g) ==
    IF Halted(acc) THEN acc
    ELSE IF Halted(g) THEN [acc EXCEPT !.ovf = TRUE, !.panic = g.panic]
    ELSE [acc EXCEPT !.val = BitOr(acc.val, g.val), !.ovf = acc.ovf \/ g.ovf]

\* value >>= n, on the M of a store in progress
V_shr(st, n) ==
    IF Halted(st) THEN st
    ELSE IF n >= mbits THEN
        IF overflow_checks
        THEN [st EXCEPT !.ovf = TRUE, !.panic = "shift"]
        ELSE [st EXCEPT !.ovf = TRUE, !.value = st.value \div Pow2(n % mbits)]
    ELSE [st EXCEPT !.value = st.value \div Pow2(n)]

----------------------------------------------------------------------------
(* check, get, set *)

\* check without its lower limit: an empty slice passes.
check_no_lower(n) == n <= mbits

check(n) == n >= 1 /\ n <= mbits

CheckFailed == [val |-> 0, ovf |-> FALSE, panic |-> "check"]

\* get shifting and resizing the element without masking it first.
get_unmasked(elem, mask, shamt) ==
    IF shamt >= tbits THEN
        IF overflow_checks
        THEN [val |-> 0, ovf |-> TRUE, panic |-> "shift"]
        ELSE [val |-> resize(elem \div Pow2(shamt % tbits), tbits, mbits),
              ovf |-> TRUE, panic |-> "none"]
    ELSE [val |-> resize(elem \div Pow2(shamt), tbits, mbits),
          ovf |-> FALSE, panic |-> "none"]

\* get::<T, M>(elem, mask, shamt) = resize((*elem & mask) >> shamt)
get(elem, mask, shamt) ==
    LET masked == BitAnd(elem, mask)
    IN  IF shamt >= tbits THEN
            IF overflow_checks
            THEN [val |-> 0, ovf |-> TRUE, panic |-> "shift"]
            ELSE [val |-> resize(masked \div Pow2(shamt % tbits), tbits, mbits),
                  ovf |-> TRUE, panic |-> "none"]
        ELSE [val |-> resize(masked \div Pow2(shamt), tbits, mbits),
              ovf |-> FALSE, panic |-> "none"]

\* set without the masking of the shifted value.
set_value_unmasked(v, mask, shamt) ==
    (resize(v, mbits, tbits) * Pow2(shamt % tbits)) % Pow2(tbits)

\* The local `value` of set: mask & (resize(value) << shamt), the shift being
\* by shamt reduced modulo the element width (callers of set_value have
\* handled the overflow panic).
set_value(v, mask, shamt) ==
    BitAnd(mask, (resize(v, mbits, tbits) * Pow2(shamt % tbits)) % Pow2(tbits))

\* set storing its masked value over the whole element, without the clear
\* and merge of the masked bits.
set_store_whole(st, idx, mask, shamt) ==
    IF Halted(st) THEN st
    ELSE IF shamt >= tbits /\ overflow_checks
    THEN [st EXCEPT !.ovf = TRUE, !.panic = "shift"]
    ELSE [st EXCEPT
             !.ovf = @ \/ shamt >= tbits,
             !.mem[idx] = set_value(st.value, mask, shamt)]

\* set::<T, M>(&mem[idx], st.value, mask, shamt) within a store in progress:
\* elem.clear_bits(mask); elem.set_bits(value)
set(st, idx, mask, shamt) ==
    IF Halted(st) THEN st
    ELSE IF shamt >= tbits /\ overflow_checks
    THEN [st EXCEPT !.ovf = TRUE, !.panic = "shift"]
    ELSE [st EXCEPT
             !.ovf = @ \/ shamt >= tbits,
             !.mem[idx] = set_bits(clear_bits(@, mask),
                                   set_value(st.value, mask, shamt))]

\* for elem in body { if M::BITS > T::Mem::BITS { accum <<= T::Mem::BITS; }
\*                    accum |= resize::<T::Mem, M>(elem); }
RECURSIVE load_body(_, _, _)
load_body(acc, m, idxs) ==
    IF idxs = <<>> THEN acc
    ELSE load_body(
            M_or(IF mbits > tbits THEN M_shl(acc, tbits) ELSE acc,
                 [val |-> resize(m[Head(idxs)], tbits, mbits),
                  ovf |-> FALSE, panic |-> "none"]),
            m, Tail(idxs))

\* for elem in body { elem.store_value(resize(value));
\*                    if M::BITS > T::Mem::BITS { value >>= T::Mem::BITS; } }
RECURSIVE store_body(_, _)
store_body(st, idxs) ==
    IF idxs = <<>> \/ Halted(st) THEN st
    ELSE LET written == [st EXCEPT !.mem[Head(idxs)] = resize(st.value, mbits, tbits)]
         IN  store_body(IF mbits > tbits THEN V_shr(written, tbits) ELSE written,
                        Tail(idxs))

StoreStart(m, v) == [mem |-> m, value |-> v, ovf |-> FALSE, panic |-> "none"]

StoreCheckFailed(m, v) == [mem |-> m, value |-> v, ovf |-> FALSE, panic |-> "check"]

----------------------------------------------------------------------------
(* impl BitField for BitSlice<Lsb0, T> *)

Lsb0_load_le(m, s, n) ==
    IF ~check(n) THEN CheckFailed
    ELSE LET d == Domain(s, n)
         IN  IF d.kind = "Enclave"
             THEN get(m[d.elem], Lsb0_mask(d.head, d.tail), d.head)
             ELSE LET a1 == IF d.has_tail
                            THEN get(m[d.telem], Lsb0_mask(0, d.tail), 0)
                            ELSE M_ZERO
                      a2 == load_body(a1, m, Reverse(d.body))
                  IN  IF d.has_head
                      THEN M_or(M_shl(a2, tbits - d.head),
                                get(m[d.helem], Lsb0_mask(d.head, tbits), d.head))
                      ELSE a2

\* Lsb0_load_be with the body walked from the highest address, as load_le
\* walks it.
Lsb0_load_be_rev_body(m, s, n) ==
    IF ~check(n) THEN CheckFailed
    ELSE LET d == Domain(s, n)
         IN  IF d.kind = "Enclave"
             THEN get(m[d.elem], Lsb0_mask(d.head, d.tail), d.head)
             ELSE LET a1 == IF d.has_head
                            THEN get(m[d.helem], Lsb0_mask(d.head, tbits), d.head)
                            ELSE M_ZERO
                      a2 == load_body(a1, m, Reverse(d.body))
                  IN  IF d.has_tail
                      THEN M_or(M_shl(a2, BitAnd(d.tail, M_MASK)),
                                get(m[d.telem], Lsb0_mask(0, d.tail), 0))
                      ELSE a2

Lsb0_load_be(m, s, n) ==
    IF ~check(n) THEN CheckFailed
    ELSE LET d == Domain(s, n)
         IN  IF d.kind = "Enclave"
             THEN get(m[d.elem], Lsb0_mask(d.head, d.tail), d.head)
             ELSE LET a1 == IF d.has_head
                            THEN get(m[d.helem], Lsb0_mask(d.head, tbits), d.head)
                            ELSE M_ZERO
                      a2 == load_body(a1, m, d.body)
                  IN  IF d.has_tail
                      THEN M_or(M_shl(a2, BitAnd(d.tail, M_MASK)),
                                get(m[d.telem], Lsb0_mask(0, d.tail), 0))
                      ELSE a2

Lsb0_store_le(m, s, n, v) ==
    IF ~check(n) THEN StoreCheckFailed(m, v)
    ELSE LET d == Domain(s, n)
             s0 == StoreStart(m, v)
         IN  IF d.kind = "Enclave"
             THEN set(s0, d.elem, Lsb0_mask(d.head, d.tail), d.head)
             ELSE LET s1 == IF d.has_head
                            THEN V_shr(set(s0, d.helem, Lsb0_mask(d.head, tbits),
                                           d.head),
                                       tbits - d.head)
                            ELSE s0
                      s2 == store_body(s1, d.body)
                  IN  IF d.has_tail
                      THEN set(s2, d.telem, Lsb0_mask(0, d.tail), 0)
                      ELSE s2

\* Lsb0_store_be shifting by the tail's width itself, without the clamp.
Lsb0_store_be_unclamped(m, s, n, v) ==
    IF ~check(n) THEN StoreCheckFailed(m, v)
    ELSE LET d == Domain(s, n)
             s0 == StoreStart(m, v)
         IN  IF d.kind = "Enclave"
             THEN set(s0, d.elem, Lsb0_mask(d.head, d.tail), d.head)
             ELSE LET s1 == IF d.has_tail
                            THEN V_shr(set(s0, d.telem, Lsb0_mask(0, d.tail), 0),
                                       d.tail)
                            ELSE s0
                      s2 == store_body(s1, Reverse(d.body))
                  IN  IF d.has_head
                      THEN set(s2, d.helem, Lsb0_mask(d.head, tbits), d.head)
                      ELSE s2

Lsb0_store_be(m, s, n, v) ==
    IF ~check(n) THEN StoreCheckFailed(m, v)
    ELSE LET d == Domain(s, n)
             s0 == StoreStart(m, v)
         IN  IF d.kind = "Enclave"
             THEN set(s0, d.elem, Lsb0_mask(d.head, d.tail), d.head)
             ELSE LET s1 == IF d.has_tail
                            THEN V_shr(set(s0, d.telem, Lsb0_mask(0, d.tail), 0),
                                       BitAnd(d.tail, M_MASK))
                            ELSE s0
                      s2 == store_body(s1, Reverse(d.body))
                  IN  IF d.has_head
                      THEN set(s2, d.helem, Lsb0_mask(d.head, tbits), d.head)
                      ELSE s2

----------------------------------------------------------------------------
(* impl BitField for BitSlice<Msb0, T> *)

\* Msb0_load_le reading its partial tail at the LSedge (shift 0), as the
\* ascending ordering places it.
Msb0_load_le_tail_at_lsedge(m, s, n) ==
    IF ~check(n) THEN CheckFailed
    ELSE LET d == Domain(s, n)
         IN  IF d.kind = "Enclave"
             THEN get(m[d.elem], Msb0_mask(d.head, d.tail), tbits - d.tail)
             ELSE LET a1 == IF d.has_tail
                            THEN get(m[d.telem], Msb0_mask(0, d.tail), 0)
                            ELSE M_ZERO
                      a2 == load_body(a1, m, Reverse(d.body))
                  IN  IF d.has_head
                      THEN M_or(M_shl(a2, tbits - d.head),
                                get(m[d.helem], Msb0_mask(d.head, tbits), 0))
                      ELSE a2

Msb0_load_le(m, s, n) ==
    IF ~check(n) THEN CheckFailed
    ELSE LET d == Domain(s, n)
         IN  IF d.kind = "Enclave"
             THEN get(m[d.elem], Msb0_mask(d.head, d.tail), tbits - d.tail)
             ELSE LET a1 == IF d.has_tail
                            THEN get(m[d.telem], Msb0_mask(0, d.tail),
                                     tbits - d.tail)
                            ELSE M_ZERO
                      a2 == load_body(a1, m, Reverse(d.body))
                  IN  IF d.has_head
                      THEN M_or(M_shl(a2, tbits - d.head),
                                get(m[d.helem], Msb0_mask(d.head, tbits), 0))
                      ELSE a2

Msb0_load_be(m, s, n) ==
    IF ~check(n) THEN CheckFailed
    ELSE LET d == Domain(s, n)
         IN  IF d.kind = "Enclave"
             THEN get(m[d.elem], Msb0_mask(d.head, d.tail), tbits - d.tail)
             ELSE LET a1 == IF d.has_head
                            THEN get(m[d.helem], Msb0_mask(d.head, tbits), 0)
                            ELSE M_ZERO
                      a2 == load_body(a1, m, d.body)
                  IN  IF d.has_tail
                      THEN M_or(M_shl(a2, d.tail),
                                get(m[d.telem], Msb0_mask(0, d.tail),
                                    tbits - d.tail))
                      ELSE a2

Msb0_store_le(m, s, n, v) ==
    IF ~check(n) THEN StoreCheckFailed(m, v)
    ELSE LET d == Domain(s, n)
             s0 == StoreStart(m, v)
         IN  IF d.kind = "Enclave"
             THEN set(s0, d.elem, Msb0_mask(d.head, d.tail), tbits - d.tail)
             ELSE LET s1 == IF d.has_head
                            THEN V_shr(set(s0, d.helem, Msb0_mask(d.head, tbits), 0),
                                       tbits - d.head)
                            ELSE s0
                      s2 == store_body(s1, d.body)
                  IN  IF d.has_tail
                      THEN set(s2, d.telem, Msb0_mask(0, d.tail), tbits - d.tail)
                      ELSE s2

\* Msb0_store_be walking the body from the lowest address, as store_le
\* walks it.
Msb0_store_be_forward_body(m, s, n, v) ==
    IF ~check(n) THEN StoreCheckFailed(m, v)
    ELSE LET d == Domain(s, n)
             s0 == StoreStart(m, v)
         IN  IF d.kind = "Enclave"
             THEN set(s0, d.elem, Msb0_mask(d.head, d.tail), tbits - d.tail)
             ELSE LET s1 == IF d.has_tail
                            THEN V_shr(set(s0, d.telem, Msb0_mask(0, d.tail),
                                           tbits - d.tail),
                                       d.tail)
                            ELSE s0
                      s2 == store_body(s1, d.body)
                  IN  IF d.has_head
                      THEN set(s2, d.helem, Msb0_mask(d.head, tbits), 0)
                      ELSE s2

Msb0_store_be(m, s, n, v) ==
    IF ~check(n) THEN StoreCheckFailed(m, v)
    ELSE LET d == Domain(s, n)
             s0 == StoreStart(m, v)
         IN  IF d.kind = "Enclave"
             THEN set(s0, d.elem, Msb0_mask(d.head, d.tail), tbits - d.tail)
             ELSE LET s1 == IF d.has_tail
                            THEN V_shr(set(s0, d.telem, Msb0_mask(0, d.tail),
                                           tbits - d.tail),
                                       d.tail)
                            ELSE s0
                      s2 == store_body(s1, Reverse(d.body))
                  IN  IF d.has_head
                      THEN set(s2, d.helem, Msb0_mask(d.head, tbits), 0)
                      ELSE s2

----------------------------------------------------------------------------
(* Dispatch on the slice's ordering, and the endian-default methods *)

load_le(ord, m, s, n) ==
    IF ord = "Lsb0" THEN Lsb0_load_le(m, s, n) ELSE Msb0_load_le(m, s, n)

load_be(ord, m, s, n) ==
    IF ord = "Lsb0" THEN Lsb0_load_be(m, s, n) ELSE Msb0_load_be(m, s, n)

store_le(ord, m, s, n, v) ==
    IF ord = "Lsb0" THEN Lsb0_store_le(m, s, n, v) ELSE Msb0_store_le(m, s, n, v)

store_be(ord, m, s, n, v) ==
    IF ord = "Lsb0" THEN Lsb0_store_be(m, s, n, v) ELSE Msb0_store_be(m, s, n, v)

load(ord, m, s, n) ==
    IF target_endian = "little" THEN load_le(ord, m, s, n) ELSE load_be(ord, m, s, n)

store(ord, m, s, n, v) ==
    IF target_endian = "little"
    THEN store_le(ord, m, s, n, v)
    ELSE store_be(ord, m, s, n, v)

----------------------------------------------------------------------------
(* The program: a slice of a region, one store and the loads that follow *)

\* The non-uniform initial element contents: a different pattern per element.
MixedElem(i, w) == (42691 * i + 19 * i * i + 101) % Pow2(w)

InitMem(f, w) ==
    [i \in 1 .. NumElems |->
        IF f = "zero" THEN 0
        ELSE IF f = "mixed" THEN MixedElem(i, w)
        ELSE BitNot(MixedElem(i, w), w)]

Init ==
    /\ order \in {"Lsb0", "Msb0"}
    /\ tbits \in ElemWidths
    /\ mbits \in RegWidths
    /\ target_endian \in {"little", "big"}
    /\ overflow_checks \in BOOLEAN
    /\ fill \in Fills
    /\ mem = InitMem(fill, tbits)
    /\ start \in 0 .. (tbits - 1)
    /\ len \in 0 .. (mbits + 1)
    /\ start + len <= NumElems * tbits
    /\ value \in {x % Pow2(mbits) : x \in ValueSeeds}
                 \cup {x % Pow2(len) : x \in ValueSeeds}
    /\ pc = "ready"
    /\ op = "none"
    /\ stored = "none"
    /\ out = 0
    /\ panicked = "none"
    /\ overflowed = FALSE
    /\ aliased = 0
    /\ aliased0 = 0
    /\ writer = <<>>
    /\ resize_value = <<>>
    /\ resize_size_u = 0
    /\ resize_out = <<>>

\* A store method was called on the slice and ran to its end or to a panic.
DoStore(name, endian, r) ==
    /\ pc = "ready"
    /\ op' = name
    /\ mem' = r.mem
    /\ panicked' = r.panic
    /\ overflowed' = r.ovf
    /\ pc' = IF Halted(r) THEN "panicked" ELSE "stored"
    /\ stored' = IF Halted(r) THEN "none" ELSE endian
    /\ out' = out
    /\ UNCHANGED config
    /\ UNCHANGED alias_vars
    /\ UNCHANGED resize_vars

\* A load method was called on the slice and returned or panicked.
DoLoad(name, r) ==
    /\ pc \in {"ready", "stored"}
    /\ op' = name
    /\ panicked' = r.panic
    /\ overflowed' = r.ovf
    /\ pc' = IF Halted(r) THEN "panicked" ELSE "loaded"
    /\ out' = IF Halted(r) THEN out ELSE r.val
    /\ UNCHANGED <<mem, stored>>
    /\ UNCHANGED config
    /\ UNCHANGED alias_vars
    /\ UNCHANGED resize_vars

StoreLe == DoStore("store_le", "le", store_le(order, mem, start, len, value))

StoreBe == DoStore("store_be", "be", store_be(order, mem, start, len, value))

Store ==
    DoStore("store", IF target_endian = "little" THEN "le" ELSE "be",
            store(order, mem, start, len, value))

LoadLe == DoLoad("load_le", load_le(order, mem, start, len))

LoadBe == DoLoad("load_be", load_be(order, mem, start, len))

Load == DoLoad("load", load(order, mem, start, len))

Next == StoreLe \/ StoreBe \/ Store \/ LoadLe \/ LoadBe \/ Load

Spec == Init /\ [][Next]_vars

----------------------------------------------------------------------------
(* Two threads calling set on one element through the aliased access: each *)
(* call is an atomic masked clear followed by an atomic masked merge.       *)

Writers == {1, 2}

\* The live windows [lo, hi) of an element that a mask of either ordering
\* selects; the shift amount of a window is its lowest bit.
Windows == {w \in (0 .. tbits - 1) \X (1 .. tbits) : w[1] < w[2]}

WindowMask(w) == Pow2(w[2]) - Pow2(w[1])

SetInit ==
    /\ order = "Lsb0"
    /\ tbits = 8
    /\ mbits \in RegWidths
    /\ target_endian \in {"little", "big"}
    /\ overflow_checks = TRUE
    /\ fill \in Fills
    /\ mem = InitMem(fill, tbits)
    /\ start = 0 /\ len = 0 /\ value = 0
    /\ pc = "set" /\ op = "none" /\ stored = "none" /\ out = 0
    /\ panicked = "none" /\ overflowed = FALSE
    /\ aliased0 = mem[1]
    /\ aliased = aliased0
    /\ resize_value = <<>> /\ resize_size_u = 0 /\ resize_out = <<>>
    /\ \E w1 \in Windows, w2 \in Windows :
         \E v1 \in ValueSeeds, v2 \in ValueSeeds :
            \* the callers partition the element: the masks are disjoint
            /\ (w1[2] <= w2[1] \/ w2[2] <= w1[1])
            /\ writer =
                 [t \in Writers |->
                    LET w == IF t = 1 THEN w1 ELSE w2
                        v == (IF t = 1 THEN v1 ELSE v2) % Pow2(mbits)
                    IN  [pc |-> "clear", mask |-> WindowMask(w), shamt |-> w[1],
                         width |-> w[2] - w[1], value |-> v,
                         bits |-> set_value(v, WindowMask(w), w[1])]]

\* elem.clear_bits(mask): an atomic and with !mask
SetClear(t) ==
    /\ pc = "set"
    /\ writer[t].pc = "clear"
    /\ aliased' = clear_bits(aliased, writer[t].mask)
    /\ writer' = [writer EXCEPT ![t].pc = "merge"]
    /\ UNCHANGED <<aliased0, config, slice_vars, resize_vars>>

\* elem.set_bits(value): an atomic or with the masked value
SetMerge(t) ==
    /\ pc = "set"
    /\ writer[t].pc = "merge"
    /\ aliased' = set_bits(aliased, writer[t].bits)
    /\ writer' = [writer EXCEPT ![t].pc = "done"]
    /\ UNCHANGED <<aliased0, config, slice_vars, resize_vars>>

SetNext == \E t \in Writers : SetClear(t) \/ SetMerge(t)

SetSpec == SetInit /\ [][SetNext]_vars

----------------------------------------------------------------------------
(* resize called on its own, between registers of 1, 2, 4 and 8 bytes.     *)

\* mem::size_of of the register types u8, u16, u32, u64
RegSizes == {1, 2, 4, 8}

\* The byte values that the registers handed to resize are made of.
ByteDigits == {0, 171, 255}

ResizeInit ==
    /\ order = "Lsb0"
    /\ tbits = 8
    /\ mbits = 8
    /\ target_endian \in {"little", "big"}
    /\ overflow_checks = TRUE
    /\ fill = "zero"
    /\ mem = InitMem(fill, tbits)
    /\ start = 0 /\ len = 0 /\ value = 0
    /\ pc = "resize" /\ op = "none" /\ stored = "none" /\ out = 0
    /\ panicked = "none" /\ overflowed = FALSE
    /\ aliased = 0 /\ aliased0 = 0 /\ writer = <<>>
    /\ resize_value \in UNION {[1 .. size_t -> ByteDigits] : size_t \in RegSizes}
    /\ resize_size_u \in RegSizes
    /\ resize_out = <<>>

\* resize::<T, U>(value) ran and returned out
Resize ==
    /\ pc = "resize"
    /\ pc' = "resized"
    /\ resize_out' = resize_bytes(resize_value, resize_size_u, target_endian)
    /\ UNCHANGED <<config, alias_vars, mem, op, stored, out, panicked,
                   overflowed, resize_value, resize_size_u>>

ResizeNext == Resize

ResizeSpec == ResizeInit /\ [][ResizeNext]_vars

----------------------------------------------------------------------------
(* The whole of field.rs: the BitField methods on a slice, set called by    *)
(* two threads on one element, and resize called on its own.                *)

FieldInit == Init \/ SetInit \/ ResizeInit

FieldNext == Next \/ SetNext \/ ResizeNext

FieldSpec == FieldInit /\ [][FieldNext]_vars

----------------------------------------------------------------------------
(* Properties *)

LenOk == check(len)

LowBitsOnly == value < Pow2(len)

\* C1: round trip.  For a slice of 1 .. M::BITS bits and a value with no bit
\* set at or above the slice length, store_le runs to its end and a
\* following load_le returns the value; likewise store_be and load_be.
C1_RoundTrip ==
    (LenOk /\ LowBitsOnly) =>
        /\ op \in {"store_le", "store_be"} => panicked = "none"
        /\ (stored = "le" /\ op = "load_le") => (panicked = "none" /\ out = value)
        /\ (stored = "be" /\ op = "load_be") => (panicked = "none" /\ out = value)

\* The bit at logical position p of the region under the ascending ordering:
\* element p div W, physical bit p mod W counted from the LSedge.
Lsb0_MemBit(m, p) == Bit(m[(p \div tbits) + 1], p % tbits)

\* C2: under Lsb0 the little-endian methods make the register a direct image
\* of the slice.  store_le runs to its end and leaves bit k of the value at
\* logical position start + k, and load_le returns the register whose bit k
\* is the bit at logical position start + k, for every k below the length.
C2_Lsb0DirectImage ==
    (order = "Lsb0" /\ LenOk) =>
        /\ op = "store_le" =>
            /\ panicked = "none"
            /\ \A k \in 0 .. (len - 1) : Lsb0_MemBit(mem, start + k) = Bit(value, k)
        /\ op = "load_le" =>
            /\ panicked = "none"
            /\ out < Pow2(len)
            /\ \A k \in 0 .. (len - 1) : Bit(out, k) = Lsb0_MemBit(mem, start + k)

\* The chunks of the slice in address order: the element of each, the lowest
\* physical bit of its live window and the width it contributes.
Chunks ==
    LET d == Domain(start, len)
        lsb == (order = "Lsb0")
        Full(i) == [idx |-> i, lo |-> 0, w |-> tbits]
        head == [idx |-> d.helem, lo |-> IF lsb THEN d.head ELSE 0,
                 w |-> tbits - d.head]
        tail == [idx |-> d.telem, lo |-> IF lsb THEN 0 ELSE tbits - d.tail,
                 w |-> d.tail]
        encl == [idx |-> d.elem, lo |-> IF lsb THEN d.head ELSE tbits - d.tail,
                 w |-> d.tail - d.head]
    IN  IF d.kind = "Enclave" THEN <<encl>>
        ELSE (IF d.has_head THEN <<head>> ELSE <<>>)
             \o [i \in 1 .. Len(d.body) |-> Full(d.body[i])]
             \o (IF d.has_tail THEN <<tail>> ELSE <<>>)

\* The value a chunk holds in memory m: its live window moved to the LSedge.
ChunkValue(m, c) == (m[c.idx] \div Pow2(c.lo)) % Pow2(c.w)

RECURSIVE WidthSum(_, _, _)
WidthSum(cs, from, to) ==
    IF from > to THEN 0 ELSE cs[from].w + WidthSum(cs, from + 1, to)

\* Significance of chunk i: the widths of the chunks below it in address
\* order (little-endian) or above it (big-endian).
OffsetLe(cs, i) == WidthSum(cs, 1, i - 1)
OffsetBe(cs, i) == WidthSum(cs, i + 1, Len(cs))

RECURSIVE Assemble(_, _, _, _)
Assemble(m, cs, i, be) ==
    IF i > Len(cs) THEN 0
    ELSE ChunkValue(m, cs[i])
            * Pow2(IF be THEN OffsetBe(cs, i) ELSE OffsetLe(cs, i))
         + Assemble(m, cs, i + 1, be)

ValueWindow(v, off, w) == (v \div Pow2(off)) % Pow2(w)

\* C3: multi-element significance rule.  For a slice of two or more chunks,
\* load_le returns the chunks summed with the lowest address least
\* significant and load_be with the lowest address most significant, each
\* chunk weighted by the widths contributed by the chunks below it; store_le
\* and store_be leave in each chunk exactly its window of the value.
C3_Significance ==
    (LenOk /\ Len(Chunks) >= 2) =>
        /\ op = "load_le" =>
            (panicked = "none" /\ out = Assemble(mem, Chunks, 1, FALSE))
        /\ op = "load_be" =>
            (panicked = "none" /\ out = Assemble(mem, Chunks, 1, TRUE))
        /\ op = "store_le" =>
            /\ panicked = "none"
            /\ \A i \in 1 .. Len(Chunks) :
                ChunkValue(mem, Chunks[i])
                    = ValueWindow(value, OffsetLe(Chunks, i), Chunks[i].w)
        /\ op = "store_be" =>
            /\ panicked = "none"
            /\ \A i \in 1 .. Len(Chunks) :
                ChunkValue(mem, Chunks[i])
                    = ValueWindow(value, OffsetBe(Chunks, i), Chunks[i].w)

\* A big-endian load of a head, a full element and a tail that differ.
C3_Witness ==
    /\ op = "load_be" /\ pc = "loaded" /\ fill = "mixed"
    /\ Len(Chunks) = 3
    /\ out = Assemble(mem, Chunks, 1, TRUE)
    /\ out # Assemble(mem, Chunks, 1, FALSE)

\* C4: RangeWidthViolation.  Every method panics in check when the slice is
\* empty or longer than M::BITS and passes check for every length in
\* 1 .. M::BITS, and a call that panics in check has modified no element.
C4_RangeWidthViolation ==
    op # "none" =>
        /\ (panicked = "check") <=> (len = 0 \/ len > mbits)
        /\ panicked = "check" => mem = InitMem(fill, tbits)

\* A store of a slice one bit longer than the register panicked in check,
\* over memory that a store of the value would have changed.
C4_Witness ==
    /\ op = "store_be" /\ panicked = "check" /\ len = mbits + 1
    /\ fill = "zero" /\ value # 0

\* C5: once check has passed no step of a method fails: no method panics,
\* and no shift of a register is by its width or more.
C5_TotalAfterCheck ==
    (op # "none" /\ LenOk) => (panicked = "none" /\ ~overflowed)

\* C6: disjoint concurrent writers.  Under every interleaving of the two
\* threads' atomic clear and merge steps: a writer that has finished finds
\* the low bits of its value in its window in every later state, a writer
\* that has not started finds its window as it was, and the bits outside
\* both masks keep their initial value.
C6_DisjointWriters ==
    pc = "set" =>
        LET both == BitOr(writer[1].mask, writer[2].mask)
        IN  /\ BitAnd(aliased, BitNot(both, tbits))
                 = BitAnd(aliased0, BitNot(both, tbits))
            /\ \A t \in Writers :
                /\ writer[t].pc = "done" =>
                     BitAnd(aliased, writer[t].mask)
                        = (writer[t].value % Pow2(writer[t].width))
                              * Pow2(writer[t].shamt)
                /\ writer[t].pc = "clear" =>
                     BitAnd(aliased, writer[t].mask)
                        = BitAnd(aliased0, writer[t].mask)

\* Both writers finished after interleaving (writer 2 cleared before writer 1
\* merged), each having changed its window, with value bits above the window.
C6_Witness ==
    /\ pc = "set"
    /\ \A t \in Writers :
        /\ writer[t].pc = "done"
        /\ writer[t].value >= Pow2(writer[t].width)
        /\ BitAnd(aliased, writer[t].mask) # BitAnd(aliased0, writer[t].mask)
    /\ aliased # aliased0

\* C7: a store consumes only the low len bits of its argument.  For a slice
\* of 1 .. M::BITS bits and any value, store_le runs to its end and leaves
\* the memory that store_le of the value reduced modulo 2^len leaves, and a
\* following load_le returns the value modulo 2^len; likewise store_be and
\* load_be.
C7_StoreLowBits ==
    LenOk =>
        LET low == value % Pow2(len)
            m0 == InitMem(fill, tbits)
        IN  /\ op = "store_le" =>
                /\ panicked = "none"
                /\ mem = store_le(order, m0, start, len, low).mem
            /\ op = "store_be" =>
                /\ panicked = "none"
                /\ mem = store_be(order, m0, start, len, low).mem
            /\ (stored = "le" /\ op = "load_le") =>
                (panicked = "none" /\ out = low)
            /\ (stored = "be" /\ op = "load_be") =>
                (panicked = "none" /\ out = low)

\* The slice lies in one storage element.
SingleElement == (start % tbits) + len <= tbits

\* C8: endianness independence within one element.  For a slice inside one
\* element, load_le and load_be return the same register, and store_le and
\* store_be leave the same memory.
C8_SingleElementEndianness ==
    (LenOk /\ SingleElement) =>
        LET m0 == InitMem(fill, tbits)
            le == load_le(order, mem, start, len)
            be == load_be(order, mem, start, len)
            sle == store_le(order, m0, start, len, value)
            sbe == store_be(order, m0, start, len, value)
        IN  /\ op = "load_le" =>
                (panicked = "none" /\ be.panic = "none" /\ out = be.val)
            /\ op = "load_be" =>
                (panicked = "none" /\ le.panic = "none" /\ out = le.val)
            /\ op = "store_le" =>
                (panicked = "none" /\ sbe.panic = "none" /\ mem = sbe.mem)
            /\ op = "store_be" =>
                (panicked = "none" /\ sle.panic = "none" /\ mem = sle.mem)

\* The partial chunks of the slice as the placement table gives them: the
\* element, the lowest physical bit lo and the width w of the live window,
\* and the position of the chunk's bits in the register under each
\* endianness.
PartialChunks ==
    LET d == Domain(start, len)
        W == tbits
        h == d.head
        t == d.tail
    IN  IF d.kind = "Enclave" THEN
            {[idx |-> d.elem, lo |-> IF order = "Lsb0" THEN h ELSE W - t,
              w |-> t - h, off_le |-> 0, off_be |-> 0]}
        ELSE
            (IF d.has_head
             THEN {[idx |-> d.helem, lo |-> IF order = "Lsb0" THEN h ELSE 0,
                    w |-> W - h, off_le |-> 0, off_be |-> len - (W - h)]}
             ELSE {})
            \cup
            (IF d.has_tail
             THEN {[idx |-> d.telem, lo |-> IF order = "Lsb0" THEN 0 ELSE W - t,
                    w |-> t, off_le |-> len - t, off_be |-> 0]}
             ELSE {})

\* The bits of element e outside the window [lo, lo + w).
OutsideWindow(e, lo, w) == e - ((e \div Pow2(lo)) % Pow2(w)) * Pow2(lo)

\* C9: partial-segment placement.  In every completed method, each partial
\* chunk occupies the physical window of the table (Lsb0 head [h, W), Lsb0
\* tail [0, t), Msb0 head [0, W-h), Msb0 tail [W-t, W), one-element slice
\* Lsb0 [h, t) and Msb0 [W-t, W-h)), the window moved down by its lowest bit
\* is the chunk's value in register bit order, and a store leaves the bits
\* of the element outside the window as they were.
C9_PartialPlacement ==
    \A c \in PartialChunks :
        LET inmem == (mem[c.idx] \div Pow2(c.lo)) % Pow2(c.w)
            m0 == InitMem(fill, tbits)
        IN  /\ (pc = "stored" /\ op = "store_le") =>
                /\ inmem = ValueWindow(value, c.off_le, c.w)
                /\ OutsideWindow(mem[c.idx], c.lo, c.w)
                       = OutsideWindow(m0[c.idx], c.lo, c.w)
            /\ (pc = "stored" /\ op = "store_be") =>
                /\ inmem = ValueWindow(value, c.off_be, c.w)
                /\ OutsideWindow(mem[c.idx], c.lo, c.w)
                       = OutsideWindow(m0[c.idx], c.lo, c.w)
            /\ (pc = "loaded" /\ op = "load_le") =>
                ValueWindow(out, c.off_le, c.w) = inmem
            /\ (pc = "loaded" /\ op = "load_be") =>
                ValueWindow(out, c.off_be, c.w) = inmem

\* A descending-order little-endian load of a head and a tail whose windows
\* hold bits that differ from their elements' other bits.
C9_Witness ==
    /\ order = "Msb0" /\ op = "load_le" /\ pc = "loaded" /\ fill = "mixed"
    /\ Cardinality(PartialChunks) = 2
    /\ out # 0
    /\ \A c \in PartialChunks : c.w > 1 /\ c.w < tbits

\* The slice starts and ends on element boundaries.
ElementAligned == start % tbits = 0 /\ len % tbits = 0

\* C10: ordering symmetry.  For a slice that starts and ends on element
\* boundaries, each little-endian and big-endian method has the same result
\* under Lsb0 as under Msb0: the same memory after a store of the same
\* value, the same register from a load of the same memory.
C10_OrderingSymmetry ==
    (LenOk /\ ElementAligned) =>
        LET m0 == InitMem(fill, tbits)
        IN  /\ op = "store_le" =>
                /\ panicked = "none"
                /\ mem = Lsb0_store_le(m0, start, len, value).mem
                /\ mem = Msb0_store_le(m0, start, len, value).mem
            /\ op = "store_be" =>
                /\ panicked = "none"
                /\ mem = Lsb0_store_be(m0, start, len, value).mem
                /\ mem = Msb0_store_be(m0, start, len, value).mem
            /\ op = "load_le" =>
                /\ panicked = "none"
                /\ out = Lsb0_load_le(mem, start, len).val
                /\ out = Msb0_load_le(mem, start, len).val
            /\ op = "load_be" =>
                /\ panicked = "none"
                /\ out = Lsb0_load_be(mem, start, len).val
                /\ out = Msb0_load_be(mem, start, len).val

\* A descending-order big-endian store over two whole elements that receive
\* different bytes.
C10_Witness ==
    /\ order = "Msb0" /\ op = "store_be" /\ pc = "stored"
    /\ ElementAligned /\ len = 2 * tbits
    /\ mem[1] # mem[2]

\* C11: resize laws, for registers of 8, 16, 32 and 64 bits.  resize::<T, T>
\* returns its argument; into a wider register the low width(T) bits are the
\* argument and every bit above them is zero, so the result is numerically
\* the argument; into a narrower register the result is the argument modulo
\* 2^width(U), i.e. its low size_of::<U>() bytes.
C11_ResizeLaws ==
    pc = "resized" =>
        LET size_t == Len(resize_value)
            size_u == resize_size_u
        IN  /\ Len(resize_out) = size_u
            /\ (size_u = size_t => resize_out = resize_value)
            /\ (size_u > size_t =>
                   \A i \in 1 .. size_u :
                      resize_out[i] = IF i <= size_t THEN resize_value[i] ELSE 0)
            /\ (size_u < size_t =>
                   \A i \in 1 .. size_u : resize_out[i] = resize_value[i])
            /\ (size_t <= 2 =>
                   LET x == FromBytesLe(resize_value)
                   IN  /\ (size_u >= size_t => FromBytesLe(resize_out) = x)
                       /\ (size_u < size_t =>
                              FromBytesLe(resize_out) = x % Pow2(8 * size_u))
                       /\ (size_u <= 2 =>
                              resize(x, 8 * size_t, 8 * size_u)
                                 = FromBytesLe(resize_out)))

\* A 64-bit value with distinct low and high bytes was truncated to 16 bits
\* on a little-endian host.
C11_Witness ==
    /\ pc = "resized"
    /\ target_endian = "little"
    /\ Len(resize_value) = 8
    /\ resize_size_u = 2
    /\ resize_value[1] = 171
    /\ resize_value[2] = 0
    /\ resize_value[8] = 255
    /\ resize_out = <<171, 0>>

\* The methods whose name fixes the element order, whatever the host.
EndianOps == {"load_le", "load_be", "store_le", "store_be"}

\* The slice is one chunk that exactly fills a register narrower than the
\* element, and the method called shifts the register by that chunk's width:
\* the _le methods by the width of a head, the Msb0 _be methods by the width
\* of a tail (the Lsb0 _be methods clamp their tail shift).
FullNarrowChunk ==
    LET d == Domain(start, len)
    IN  /\ mbits < tbits
        /\ len = mbits
        /\ d.kind = "Region"
        /\ \/ /\ op \in {"load_le", "store_le"}
              /\ d.has_head /\ tbits - d.head = mbits
           \/ /\ order = "Msb0" /\ op \in {"load_be", "store_be"}
              /\ d.has_tail /\ d.tail = mbits

\* The element of chunk c of memory m0 with the chunk's live window replaced
\* by the window of v at offset off.
ElemWithWindow(m0, c, v, off) ==
    m0[c.idx] - ChunkValue(m0, c) * Pow2(c.lo)
              + ValueWindow(v, off, c.w) * Pow2(c.lo)

\* Memory m0 with every chunk of the slice holding its window of v.
StoredImage(m0, v, be) ==
    [i \in 1 .. NumElems |->
        IF \E k \in 1 .. Len(Chunks) : Chunks[k].idx = i
        THEN LET k == CHOOSE j \in 1 .. Len(Chunks) : Chunks[j].idx = i
             IN ElemWithWindow(m0, Chunks[k], v,
                    IF be THEN OffsetBe(Chunks, k) ELSE OffsetLe(Chunks, k))
        ELSE m0[i]]

\* C12: host-byte-order independence.  The outcome of load_le, load_be,
\* store_le and store_be (whether the call returns, the register returned,
\* every element afterwards) is the same function of the ordering, the
\* widths, the memory, the slice and the value on a big-endian host as on a
\* little-endian one, no host byte order entering it; and the big-endian
\* byte copy of resize returns the same register as the little-endian one
\* for every pair of sizes and every value.
C12_HostIndependence ==
    /\ pc = "resized" =>
          /\ resize_bytes(resize_value, resize_size_u, "big")
                = resize_bytes(resize_value, resize_size_u, "little")
          /\ resize_out = resize_bytes(resize_value, resize_size_u, "little")
    /\ (LenOk /\ op \in EndianOps) =>
          /\ overflowed = FullNarrowChunk
          /\ panicked = IF overflow_checks /\ FullNarrowChunk
                         THEN "shift" ELSE "none"
          /\ (op = "load_le" /\ pc = "loaded") =>
                out = Assemble(mem, Chunks, 1, FALSE)
          /\ (op = "load_be" /\ pc = "loaded") =>
                out = Assemble(mem, Chunks, 1, TRUE)
          /\ op = "store_le" =>
                mem = StoredImage(InitMem(fill, tbits), value, FALSE)
          /\ op = "store_be" =>
                mem = StoredImage(InitMem(fill, tbits), value, TRUE)

\* On a big-endian host a 16-bit register was stored over a head, a whole
\* element and a tail of 8-bit elements.
C12_Witness ==
    /\ target_endian = "big"
    /\ op = "store_le" /\ pc = "stored"
    /\ tbits = 8 /\ mbits = 16
    /\ Len(Chunks) = 3
    /\ fill = "mixed" /\ value = 42701
    /\ mem # InitMem(fill, tbits)

\* C13: tail-shift clamp of the Lsb0 big-endian methods.  With a partial
\* tail of live width t, load_be and store_be shift by t & M::MASK, which is
\* t modulo M::BITS.  That amount differs from t only when t = M::BITS; the
\* slice then has no head and no interior element, no shift overflows,
\* load_be returns the tail's extracted value and store_be leaves the whole
\* value in the tail.  For t < M::BITS the amount is t: load_be returns the
\* chunks before the tail shifted up by t over the tail's value, and
\* store_be leaves in each chunk the window of the value at the widths of
\* the chunks after it.
C13_TailShiftClamp ==
    LET d == Domain(start, len)
        t == d.tail
        shamt == BitAnd(t, M_MASK)
        n == Len(Chunks)
    IN  (/\ order = "Lsb0" /\ op \in {"load_be", "store_be"}
         /\ LenOk /\ d.kind = "Region" /\ d.has_tail) =>
            /\ shamt = t % mbits
            /\ (shamt # t => t = mbits)
            /\ (t < mbits => shamt = t)
            /\ ~overflowed /\ panicked = "none"
            /\ (t = mbits) =>
                  /\ shamt = 0
                  /\ ~d.has_head /\ d.body = <<>>
                  /\ op = "load_be" => out = mem[d.telem] % Pow2(t)
                  /\ op = "store_be" => mem[d.telem] % Pow2(t) = value
            /\ (t < mbits) =>
                  /\ op = "load_be" =>
                        /\ out % Pow2(t) = ChunkValue(mem, Chunks[n])
                        /\ out \div Pow2(t)
                             = Assemble(mem, SubSeq(Chunks, 1, n - 1), 1, TRUE)
                  /\ op = "store_be" =>
                        \A i \in 1 .. n :
                           ChunkValue(mem, Chunks[i])
                              = ValueWindow(value, OffsetBe(Chunks, i), Chunks[i].w)

\* store_be of an 8-bit register over the low half of a 16-bit element: the
\* tail's width is the register's, and the whole value went into the tail.
C13_Witness ==
    /\ order = "Lsb0" /\ op = "store_be" /\ pc = "stored"
    /\ tbits = 16 /\ mbits = 8
    /\ Domain(start, len).has_tail /\ Domain(start, len).tail = 8
    /\ fill = "inverse" /\ value = 171
    /\ mem[1] % 256 = 171

\* The bit at logical position p of the region: element p div W, and in it
\* the physical bit p mod W counted from the LSedge (Lsb0) or from the
\* MSedge (Msb0).
MemBit(m, p) ==
    Bit(m[(p \div tbits) + 1],
        IF order = "Lsb0" THEN p % tbits ELSE tbits - 1 - (p % tbits))

\* C14: store frame.  After a store that returned, every bit of the region
\* outside the slice has the value it had before the call; an element that
\* holds no chunk of the slice is as it was; a wholly covered element holds
\* exactly its window of the value.  Within set, while one call alone has
\* acted on an element, every bit outside its mask is as before the call,
\* after its clear and after its merge; and whatever the two calls have done
\* so far, the bits outside both masks are as before.
C14_StoreFrame ==
    /\ pc = "stored" =>
          LET m0 == InitMem(fill, tbits)
              touched == {Chunks[k].idx : k \in 1 .. Len(Chunks)}
          IN  /\ \A p \in 0 .. (NumElems * tbits - 1) :
                    (p < start \/ p >= start + len) =>
                        MemBit(mem, p) = MemBit(m0, p)
              /\ \A i \in 1 .. NumElems : i \notin touched => mem[i] = m0[i]
              /\ \A k \in 1 .. Len(Chunks) :
                    Chunks[k].w = tbits =>
                        mem[Chunks[k].idx]
                          = ValueWindow(value,
                                IF stored = "be" THEN OffsetBe(Chunks, k)
                                ELSE OffsetLe(Chunks, k), tbits)
    /\ pc = "set" =>
          /\ \A t \in Writers :
                (\A u \in Writers \ {t} : writer[u].pc = "clear") =>
                    BitAnd(aliased, BitNot(writer[t].mask, tbits))
                      = BitAnd(aliased0, BitNot(writer[t].mask, tbits))
          /\ LET both == BitOr(writer[1].mask, writer[2].mask)
             IN BitAnd(aliased, BitNot(both, tbits))
                  = BitAnd(aliased0, BitNot(both, tbits))

\* A 16-bit register was stored under Msb0 over a head, a whole element and
\* a tail of 8-bit elements that held set bits around the slice.
C14_Witness ==
    /\ order = "Msb0" /\ op = "store_le" /\ pc = "stored"
    /\ tbits = 8 /\ mbits = 16
    /\ start = 3 /\ len = 16
    /\ fill = "inverse" /\ value = 42701
    /\ mem # InitMem(fill, tbits)

\* The physical bits of element i that lie in the slice, as a mask.
RangeMask(i) ==
    LET base == (i - 1) * tbits
        lo == IF start > base THEN start - base ELSE 0
        hi == IF start + len < base + tbits THEN start + len - base ELSE tbits
    IN  IF hi <= lo THEN 0
        ELSE IF order = "Lsb0" THEN Pow2(hi) - Pow2(lo)
        ELSE Pow2(tbits - lo) - Pow2(tbits - hi)

\* Memory m with every bit outside the slice inverted.
OutsideFlipped(m) ==
    [i \in 1 .. NumElems |->
        BitAnd(m[i], RangeMask(i))
          + BitAnd(BitNot(m[i], tbits), BitNot(RangeMask(i), tbits))]

LoadOps == {"load_le", "load_be", "load"}

\* C15: a load depends only on the bits of the slice and is zero above the
\* slice length.  On the memory that agrees with this one inside the slice
\* and differs in every bit outside it, the same load has the same outcome
\* and returns the same register; the register returned is below 2^len,
\* whether M is wider or narrower than the element; and the memory after a
\* load is the memory before it (the initial one, or the one the preceding
\* store left).
C15_LoadNonInterference ==
    (LenOk /\ op \in LoadOps) =>
        LET m2 == OutsideFlipped(mem)
            r2 == IF op = "load_le" THEN load_le(order, m2, start, len)
                  ELSE IF op = "load_be" THEN load_be(order, m2, start, len)
                  ELSE load(order, m2, start, len)
            m0 == InitMem(fill, tbits)
        IN  /\ r2.panic = panicked
            /\ pc = "loaded" => (out = r2.val /\ out < Pow2(len))
            /\ stored = "none" => mem = m0
            /\ stored # "none" => mem = StoredImage(m0, value, stored = "be")

\* A load into an 8-bit register of five bits that cross two 16-bit
\* elements holding set bits on both sides of the slice.
C15_Witness ==
    /\ order = "Msb0" /\ op = "load_be" /\ pc = "loaded" /\ stored = "none"
    /\ tbits = 16 /\ mbits = 8
    /\ start = 13 /\ len = 5
    /\ fill = "mixed"
    /\ out # 0
    /\ OutsideFlipped(mem) # mem

====
